---------------------------- MODULE Spec2Model ----------------------------
(***************************************************************************)
(* Model of the sandwich bot driver `main` of src/bot/src/hugo.rs.         *)
(*                                                                         *)
(* The driver is one sequential loop over a stream of pending              *)
(* transactions.  Each loop iteration takes one candidate through the      *)
(* stages of the pipeline; every `continue` of the source returns to the   *)
(* head of the loop, every `?` and every panic ends the process.           *)
(*                                                                         *)
(* U256 values are modelled with a scaled-down width (Width bits): the     *)
(* arithmetic operators of ethers' U256 panic on overflow, on underflow    *)
(* and on division by zero, and the model keeps these faults.              *)
(***************************************************************************)
EXTENDS Integers, Sequences, FiniteSets, TLC

VARIABLES
    pc,          \* position of the driver in main
    fatal,       \* why the process ended ("none" while it runs)
    last_block,  \* block number read at startup (line 25)
    chainHead,   \* head block number of the chain
    chainNonce,  \* transaction count of the searcher account on the chain
    fed,         \* number of hashes the pending-transaction feed has yielded
    inflight,    \* hashes whose transaction-body lookup is still pending
    started,     \* hashes in the order their pipeline started
    active,      \* hashes whose pipeline started and has not ended
    c,           \* the loop iteration's locals (current candidate)
    hist,        \* stages and external calls performed for the current candidate
    simCalls,    \* bundles passed to simulate_bundle for the current candidate
    sendCalls    \* bundles passed to send_bundle for the current candidate

vars == <<pc, fatal, last_block, chainHead, chainNonce, fed, inflight,
          started, active, c, hist, simCalls, sendCalls>>

---------------------------------------------------------------------------
(* Bounds of the model *)

MaxFeed == 2
MaxHead == 1
Width == 20

(* Program constants *)

BribeShare == 1337
BribeDenominator == 10000
GasLimit == 250000
ChainId == 1

U256Max == 2^Width - 1

\* epoch seconds, for the clock and for deadlines
Times == {1, 2}

uni_v2_addr == "router"
sandwich_contract_address == "sandwich"
searcher_wallet_address == "searcher"
Destinations == {uni_v2_addr, "other"}

\* token addresses, compared numerically as H160 values are
Paths == {<<1, 2>>, <<2, 1>>}
\* (reserve0, reserve1) as the pair contract reports them
PoolReserves == {<<3, 5>>}
OptimalIns == {0, 4}
Revenues == {1, 15, U256Max}
Fees == {1, 2}
\* gas used per leg as a simulation reports it: three legs, or fewer
SimulatedBundles == {<<0, 1, 2>>, <<0, 1, 1>>, <<1, 0, 1>>, <<1, 1, 0>>, <<1, 1>>}

---------------------------------------------------------------------------
(* Values *)

NoTx == [kind |-> "none", to |-> "", from |-> "", data |-> <<>>, chain_id |-> 0,
         max_priority_fee_per_gas |-> 0, max_fee_per_gas |-> 0, gas |-> 0,
         nonce |-> 0, signed |-> FALSE, hash |-> 0]

NoBundle == [transactions |-> <<>>, block |-> 0]

\* the locals of one loop iteration; chain_head_read, chain_nonce_read and
\* pool_reserves record what the chain held when the iteration asked
NoCandidate ==
    [hash |-> 0, rej |-> "none", to |-> "", deadline |-> 0, now |-> 0,
     path |-> <<>>, pool_reserves |-> <<0, 0>>,
     token_a_reserves |-> 0, token_b_reserves |-> 0,
     optimal_weth_in |-> 0, revenue |-> 0, head |-> 0, target |-> 0,
     next_base_fee |-> 0, nonce |-> 0,
     chain_head_read |-> 0, chain_nonce_read |-> 0,
     signed_frontrun_tx |-> NoTx, signed_backrun_tx |-> NoTx,
     bundle |-> NoBundle, sim |-> <<>>, gate |-> "none",
     max_priority_fee_per_gas |-> 0]

---------------------------------------------------------------------------
(* Pure steps of main *)

\* the deadline second itself counted as expired
ExpiredAtDeadline(since_the_epoch, deadline) == since_the_epoch >= deadline

\* line 113: U256::from(since_the_epoch) > deadline
Expired(since_the_epoch, deadline) == since_the_epoch > deadline

\* the amounts swapped whatever the order of the tokens
ReorderAlways(token_a, token_b, reserves) == <<reserves[2], reserves[1]>>

\* the amounts swapped when the tokens are in order
ReorderInverted(token_a, token_b, reserves) ==
    IF token_a < token_b THEN <<reserves[2], reserves[1]>> ELSE reserves

\* lines 170-173: swap the amounts if the tokens are not in order
ReorderReserves(token_a, token_b, reserves) ==
    IF token_a > token_b THEN <<reserves[2], reserves[1]>> ELSE reserves

\* the zero check never taken
NothingToSandwichNever(optimal_weth_in) == optimal_weth_in < 0

\* line 186: no input amount makes the sandwich profitable
NothingToSandwich(optimal_weth_in) == optimal_weth_in <= 0

\* lines 224-225: target = block.number + 1
TargetBlock(number) == number + 1

\* the front-run leg bidding a priority fee of its own
FrontrunRequestPaysPriority(next_base_fee, nonce) ==
    [kind |-> "frontrun", to |-> sandwich_contract_address,
     from |-> searcher_wallet_address, data |-> <<>>, chain_id |-> ChainId,
     max_priority_fee_per_gas |-> next_base_fee,
     max_fee_per_gas |-> next_base_fee,
     gas |-> GasLimit, nonce |-> nonce, signed |-> FALSE, hash |-> 0]

\* lines 258-269
FrontrunRequest(next_base_fee, nonce) ==
    [kind |-> "frontrun", to |-> sandwich_contract_address,
     from |-> searcher_wallet_address, data |-> <<>>, chain_id |-> ChainId,
     max_priority_fee_per_gas |-> 0, max_fee_per_gas |-> next_base_fee,
     gas |-> GasLimit, nonce |-> nonce, signed |-> FALSE, hash |-> 0]

\* the back-run nonce taken from a second query of the transaction count
BackrunRequestRequeried(next_base_fee, nonce) ==
    [kind |-> "backrun", to |-> sandwich_contract_address,
     from |-> searcher_wallet_address, data |-> <<>>, chain_id |-> ChainId,
     max_priority_fee_per_gas |-> 0, max_fee_per_gas |-> next_base_fee,
     gas |-> GasLimit, nonce |-> chainNonce + 1, signed |-> FALSE, hash |-> 0]

\* lines 298-309
BackrunRequest(next_base_fee, nonce) ==
    [kind |-> "backrun", to |-> sandwich_contract_address,
     from |-> searcher_wallet_address, data |-> <<>>, chain_id |-> ChainId,
     max_priority_fee_per_gas |-> 0, max_fee_per_gas |-> next_base_fee,
     gas |-> GasLimit, nonce |-> nonce + 1, signed |-> FALSE, hash |-> 0]

\* lines 281, 320: rlp_signed of the request with the wallet's signature
RlpSigned(request) == [request EXCEPT !.signed = TRUE]

\* line 335: tx.rlp(), the victim transaction as it came from the feed
VictimRlp(hash, to) == [NoTx EXCEPT !.kind = "victim", !.to = to, !.hash = hash]

\* the victim ahead of the front-run leg
VictimFirst(signed_frontrun_tx, victim, signed_backrun_tx) ==
    <<victim, signed_frontrun_tx, signed_backrun_tx>>

\* line 335
SignedTransactions(signed_frontrun_tx, victim, signed_backrun_tx) ==
    <<signed_frontrun_tx, victim, signed_backrun_tx>>

\* relayer::construct_bundle: the transactions in the order given, for the
\* target block
ConstructBundle(signed_transactions, target) ==
    [transactions |-> signed_transactions, block |-> target]

---------------------------------------------------------------------------
(* U256 arithmetic of the gatekeeper, lines 354-373.  The operators of U256 *)
(* panic when the result does not fit, and on division by zero.             *)

MulOverflows(a, b) == a # 0 /\ b > U256Max \div a

GateFault == [outcome |-> "fault", max_priority_fee_per_gas |-> 0]

\* a bribe equal to the base fee rejected as well
GateRejectsEqual(max_priority_fee_per_gas, next_base_fee) ==
    max_priority_fee_per_gas <= next_base_fee

\* line 366: the bribe is too low
GateRejects(max_priority_fee_per_gas, next_base_fee) ==
    max_priority_fee_per_gas < next_base_fee

\* the bribe net of the back-run leg's gas cost as well
BribeNetOfBackrun(revenue, frontrun_gas, backrun_gas, next_base_fee) ==
    LET gas_cost == (frontrun_gas + backrun_gas) * next_base_fee IN
    IF revenue < gas_cost \/ backrun_gas = 0 THEN GateFault
    ELSE IF MulOverflows(revenue - gas_cost, BribeShare) THEN GateFault
    ELSE LET max_priority_fee_per_gas ==
                 (((revenue - gas_cost) * BribeShare) \div BribeDenominator)
                     \div backrun_gas
         IN  [outcome |-> IF GateRejects(max_priority_fee_per_gas,
                                         next_base_fee)
                          THEN "rejected" ELSE "accepted",
              max_priority_fee_per_gas |-> max_priority_fee_per_gas]

\* lines 359-360 and the comparison of line 366, given the two gas readings
Bribe(revenue, frontrun_gas, backrun_gas, next_base_fee) ==
    IF MulOverflows(frontrun_gas, next_base_fee) THEN GateFault
    ELSE IF revenue < frontrun_gas * next_base_fee THEN GateFault
    ELSE LET bribe_amount == revenue - frontrun_gas * next_base_fee IN
         IF MulOverflows(bribe_amount, BribeShare) THEN GateFault
         ELSE IF backrun_gas = 0 THEN GateFault
         ELSE LET max_priority_fee_per_gas ==
                      ((bribe_amount * BribeShare) \div BribeDenominator)
                          \div backrun_gas
              IN  [outcome |-> IF GateRejects(max_priority_fee_per_gas,
                                              next_base_fee)
                               THEN "rejected" ELSE "accepted",
                   max_priority_fee_per_gas |-> max_priority_fee_per_gas]

\* lines 355-356: transactions[0] and transactions[2] of the simulation
Gatekeeper(revenue, simulated, next_base_fee) ==
    IF Len(simulated) < 3 THEN GateFault
    ELSE Bribe(revenue, simulated[1], simulated[3], next_base_fee)

\* the bundle aimed one block further on before it is sent
SentBundleRetargeted(bundle) == [bundle EXCEPT !.block = @ + 1]

\* line 376: send_bundle(&bundle), the bundle that was simulated
SentBundle(bundle) == bundle

\* the gate's `continue` left out
AfterGateFallsThrough(outcome) == "send"

\* where the driver goes after the gate, lines 366-376
AfterGate(outcome) == IF outcome = "accepted" THEN "send" ELSE "next"

---------------------------------------------------------------------------
(* The state after construction *)

Init ==
    /\ pc = "start"
    /\ fatal = "none"
    /\ last_block = 0
    /\ chainHead = 0
    /\ chainNonce = 0
    /\ fed = 0
    /\ inflight = {}
    /\ started = <<>>
    /\ active = {}
    /\ c = NoCandidate
    /\ hist = <<>>
    /\ simCalls = <<>>
    /\ sendCalls = <<>>

Running == fatal = "none"

\* the chain, the account and the feed stay as they are
EnvUnchanged == UNCHANGED <<chainHead, chainNonce, fed>>

\* the `continue` of the deadline check left out
RejectWithoutContinue(stage, c2) ==
    /\ pc' = IF stage = "deadline" THEN "min_recv" ELSE "next"
    /\ c' = [c2 EXCEPT !.rej = stage]
    /\ active' = active \ {c.hash}
    /\ UNCHANGED <<fatal, last_block, inflight, started>>
    /\ EnvUnchanged

\* a failed submission tried again instead of abandoned
RejectWithRetry(stage, c2) ==
    /\ pc' = IF stage = "send_bundle" THEN "send" ELSE "next"
    /\ c' = [c2 EXCEPT !.rej = stage]
    /\ active' = active \ {c.hash}
    /\ UNCHANGED <<fatal, last_block, inflight, started>>
    /\ EnvUnchanged

\* `continue`: the candidate is abandoned at `stage` with the locals `c2`,
\* back to the loop head
RejectWith(stage, c2) ==
    /\ pc' = "next"
    /\ c' = [c2 EXCEPT !.rej = stage]
    /\ active' = active \ {c.hash}
    /\ UNCHANGED <<fatal, last_block, inflight, started>>
    /\ EnvUnchanged

Reject(stage) == RejectWith(stage, c)

\* the stage succeeded with the locals `c2`, on to `to`
Advance(to, c2) ==
    /\ pc' = to
    /\ c' = c2
    /\ UNCHANGED <<fatal, last_block, inflight, started, active>>
    /\ EnvUnchanged

\* `?` out of main, or a panic: the process ends
Die(how, cause) ==
    /\ pc' = how
    /\ fatal' = cause
    /\ UNCHANGED <<last_block, inflight, started, active, c>>
    /\ EnvUnchanged

NoCalls == UNCHANGED <<simCalls, sendCalls>>

Did(step) == hist' = Append(hist, step)

---------------------------------------------------------------------------
(* The environment *)

\* The chain grows by a block, which may hold a transaction of the searcher
\* account (sent by anyone holding the key, this process included).  The
\* driver sees the chain only where it asks for the latest block or for the
\* transaction count, so the blocks mined since the last question are added
\* there; a block may also fall between the building of the two legs.
\* Block numbers are counted from the chain head at startup.
NewBlock ==
    /\ Running
    /\ pc \in {"block", "nonce", "sign_back"}
    /\ chainHead < MaxHead
    /\ chainHead' = chainHead + 1
    /\ chainNonce' \in {chainNonce, chainNonce + 1}
    /\ UNCHANGED <<pc, fatal, last_block, fed, inflight, started, active, c,
                   hist, simCalls, sendCalls>>

\* The node reports a new pending hash and the transaction stream of line 60
\* starts the lookup of its body.  The stream does this only while it is
\* polled, at the head of the loop; until then the node keeps the hash.
FeedYields ==
    /\ Running
    /\ pc = "next"
    /\ fed < MaxFeed
    /\ fed' = fed + 1
    /\ inflight' = inflight \cup {fed + 1}
    /\ UNCHANGED <<pc, fatal, last_block, chainHead, chainNonce, started,
                   active, c, hist, simCalls, sendCalls>>

---------------------------------------------------------------------------
(* Startup, lines 19-60 *)

\* lines 19-50: providers, latest block, signer, addresses, wallet
Startup ==
    /\ pc = "start"
    /\ UNCHANGED hist
    /\ NoCalls
    /\ \/ /\ pc' = "subscribe"
          /\ last_block' = chainHead
          /\ UNCHANGED <<fatal, inflight, started, active, c>>
          /\ EnvUnchanged
       \/ Die("exited", "startup")

\* lines 52-60: watch_pending_transactions, or panic
Subscribe ==
    /\ pc = "subscribe"
    /\ UNCHANGED hist
    /\ NoCalls
    /\ \/ /\ pc' = "next"
          /\ UNCHANGED <<fatal, last_block, inflight, started, active, c>>
          /\ EnvUnchanged
       \/ Die("panicked", "subscribe")

---------------------------------------------------------------------------
(* The loop, lines 63-390 *)

\* the stream polled while a candidate is still in the pipeline
LoopReadyAnytime == pc \notin {"start", "subscribe"}

\* line 63: the stream is polled only at the head of the loop
LoopReady == pc = "next"

\* lines 63-73: transactions_unordered yields the lookups as they complete,
\* in any order; a lookup yields the transaction or an error
TakeNext ==
    /\ Running
    /\ LoopReady
    /\ \E h \in inflight :
          /\ inflight' = inflight \ {h}
          /\ started' = Append(started, h)
          /\ hist' = <<"next">>
          /\ simCalls' = <<>>
          /\ sendCalls' = <<>>
          /\ \/ \E to \in Destinations :
                   /\ c' = [NoCandidate EXCEPT !.hash = h, !.to = to]
                   /\ pc' = "receipt"
                   /\ active' = active \cup {h}
             \/ /\ c' = [NoCandidate EXCEPT !.hash = h, !.rej = "next"]
                /\ pc' = "next"
                /\ active' = active
    /\ UNCHANGED <<fatal, last_block>>
    /\ EnvUnchanged

\* lines 75-86: a receipt exists, the lookup fails, or there is none
GetReceipt ==
    /\ pc = "receipt"
    /\ Did("get_transaction_receipt")
    /\ NoCalls
    /\ \E r \in {"some", "err", "none"} :
          IF r = "none" THEN Advance("filter", c)
          ELSE Reject("get_transaction_receipt")

\* lines 88-92
Filter ==
    /\ pc = "filter"
    /\ Did("filter")
    /\ NoCalls
    /\ IF c.to # uni_v2_addr THEN Reject("filter") ELSE Advance("decode", c)

\* lines 94-100: abi::decode_uniswap_router_calldata
Decode ==
    /\ pc = "decode"
    /\ Did("decode")
    /\ NoCalls
    /\ \/ \E deadline \in Times, path \in Paths :
             Advance("deadline", [c EXCEPT !.deadline = deadline, !.path = path])
       \/ Reject("decode")

\* lines 102-116: the clock is read and compared with the deadline
DeadlineCheck ==
    /\ pc = "deadline"
    /\ Did("deadline")
    /\ NoCalls
    /\ \E since_the_epoch \in Times :
          LET c2 == [c EXCEPT !.now = since_the_epoch] IN
          IF Expired(since_the_epoch, c.deadline)
          THEN RejectWith("deadline", c2)
          ELSE Advance("min_recv", c2)

\* lines 118-128: uniswap::get_univ2_exact_weth_token_min_recv
MinRecv ==
    /\ pc = "min_recv"
    /\ Did("get_univ2_exact_weth_token_min_recv")
    /\ NoCalls
    /\ \/ Advance("pair", c)
       \/ Reject("get_univ2_exact_weth_token_min_recv")

\* lines 135-152: uniswap::get_uniswap_v2_pair_address
PairAddress ==
    /\ pc = "pair"
    /\ Did("pair")
    /\ NoCalls
    /\ \/ Advance("reserves", c)
       \/ Reject("pair")

\* lines 154-168: uniswap::get_uniswap_v2_reserves
GetReserves ==
    /\ pc = "reserves"
    /\ Did("get_uniswap_v2_reserves")
    /\ NoCalls
    /\ \/ \E r \in PoolReserves :
             Advance("reorder", [c EXCEPT !.pool_reserves = r,
                                          !.token_a_reserves = r[1],
                                          !.token_b_reserves = r[2]])
       \/ Reject("get_uniswap_v2_reserves")

\* lines 170-173
Reorder ==
    /\ pc = "reorder"
    /\ Did("reorder")
    /\ NoCalls
    /\ LET r == ReorderReserves(c.path[1], c.path[2],
                                <<c.token_a_reserves, c.token_b_reserves>>)
       IN  Advance("optimal_in", [c EXCEPT !.token_a_reserves = r[1],
                                           !.token_b_reserves = r[2]])

\* lines 175-192: numeric::calculate_sandwich_optimal_in and the zero check
OptimalIn ==
    /\ pc = "optimal_in"
    /\ Did("optimal_in")
    /\ NoCalls
    /\ \E optimal_weth_in \in OptimalIns :
          LET c2 == [c EXCEPT !.optimal_weth_in = optimal_weth_in] IN
          IF NothingToSandwich(optimal_weth_in)
          THEN RejectWith("optimal_in", c2)
          ELSE Advance("context", c2)

\* lines 194-209: numeric::calculate_sandwich_context
SandwichContext ==
    /\ pc = "context"
    /\ Did("context")
    /\ NoCalls
    /\ \/ \E revenue \in Revenues :
             Advance("block", [c EXCEPT !.revenue = revenue])
       \/ Reject("context")

\* the block number of startup used again
StartupBlockNumber == last_block

\* line 213: the latest block is asked of the node
LatestBlockNumber == chainHead

\* lines 236-238: the account's transaction count is asked of the node
TransactionCount == chainNonce

\* lines 211-235: latest block, target block, next base fee
GetBlock ==
    /\ pc = "block"
    /\ NoCalls
    /\ \/ /\ Did("get_block")
          /\ Reject("get_block")
       \/ /\ hist' = hist \o <<"get_block", "target">>
          /\ Reject("target")
       \/ /\ hist' = hist \o <<"get_block", "target", "base_fee">>
          /\ LET number == LatestBlockNumber
                 c2 == [c EXCEPT !.head = number,
                                 !.target = TargetBlock(number),
                                 !.chain_head_read = chainHead]
             IN  \/ \E next_base_fee \in Fees :
                       Advance("nonce",
                               [c2 EXCEPT !.next_base_fee = next_base_fee])
                 \/ RejectWith("base_fee", c2)

\* lines 236-244
GetNonce ==
    /\ pc = "nonce"
    /\ Did("get_transaction_count")
    /\ NoCalls
    /\ \/ Advance("sign_front", [c EXCEPT !.nonce = TransactionCount,
                                           !.chain_nonce_read = chainNonce])
       \/ Reject("get_transaction_count")

\* lines 246-281: the front-run request is built and signed.  The wallet is
\* loaded again from the environment (line 273, with `?`); the same load
\* succeeded at line 45 on the same environment, so it succeeds here.
SignFrontrun ==
    /\ pc = "sign_front"
    /\ Did("sign_frontrun")
    /\ NoCalls
    /\ \/ Advance("sign_back",
                  [c EXCEPT !.signed_frontrun_tx =
                       RlpSigned(FrontrunRequest(c.next_base_fee, c.nonce))])
       \/ Reject("sign_frontrun")

\* lines 286-320: the back-run request is built and signed
SignBackrun ==
    /\ pc = "sign_back"
    /\ Did("sign_backrun")
    /\ NoCalls
    /\ \/ Advance("bundle",
                  [c EXCEPT !.signed_backrun_tx =
                       RlpSigned(BackrunRequest(c.next_base_fee, c.nonce))])
       \/ Reject("sign_backrun")

\* lines 322-343: the relay client (the URL is a literal that parses) and
\* the bundle
AssembleBundle ==
    /\ pc = "bundle"
    /\ Did("construct_bundle")
    /\ NoCalls
    /\ \/ Advance("simulate",
                  [c EXCEPT !.bundle =
                       ConstructBundle(
                           SignedTransactions(c.signed_frontrun_tx,
                                              VictimRlp(c.hash, c.to),
                                              c.signed_backrun_tx),
                           c.target)])
       \/ Reject("construct_bundle")

\* lines 345-352
SimulateBundle ==
    /\ pc = "simulate"
    /\ Did("simulate_bundle")
    /\ simCalls' = Append(simCalls, c.bundle)
    /\ UNCHANGED sendCalls
    /\ \/ \E simulated \in SimulatedBundles :
             Advance("gate", [c EXCEPT !.sim = simulated])
       \/ Reject("simulate_bundle")

\* lines 354-373: gas readings, bribe, priority fee and the gate
Gate ==
    /\ pc = "gate"
    /\ Did("gate")
    /\ NoCalls
    /\ LET g == Gatekeeper(c.revenue, c.sim, c.next_base_fee)
           c2 == [c EXCEPT !.gate = g.outcome,
                           !.max_priority_fee_per_gas =
                               g.max_priority_fee_per_gas]
       IN  IF g.outcome = "fault"
           THEN Die("panicked", "gate")
           ELSE IF AfterGate(g.outcome) = "send"
           THEN Advance("send", c2)
           ELSE RejectWith("gate", c2)

\* lines 375-389
SendBundle ==
    /\ pc = "send"
    /\ Did("send_bundle")
    /\ sendCalls' = Append(sendCalls, SentBundle(c.bundle))
    /\ UNCHANGED simCalls
    /\ \/ /\ pc' = "next"
          /\ active' = active \ {c.hash}
          /\ UNCHANGED <<fatal, last_block, inflight, started, c>>
          /\ EnvUnchanged
       \/ Reject("send_bundle")

---------------------------------------------------------------------------

Next ==
    \/ NewBlock
    \/ FeedYields
    \/ Startup
    \/ Subscribe
    \/ TakeNext
    \/ GetReceipt
    \/ Filter
    \/ Decode
    \/ DeadlineCheck
    \/ MinRecv
    \/ PairAddress
    \/ GetReserves
    \/ Reorder
    \/ OptimalIn
    \/ SandwichContext
    \/ GetBlock
    \/ GetNonce
    \/ SignFrontrun
    \/ SignBackrun
    \/ AssembleBundle
    \/ SimulateBundle
    \/ Gate
    \/ SendBundle

Spec == Init /\ [][Next]_vars

\* the steps of the process itself: startup, the subscription, and the loop
\* of lines 63-390
DriverStep ==
    \/ Startup
    \/ Subscribe
    \/ TakeNext
    \/ GetReceipt
    \/ Filter
    \/ Decode
    \/ DeadlineCheck
    \/ MinRecv
    \/ PairAddress
    \/ GetReserves
    \/ Reorder
    \/ OptimalIn
    \/ SandwichContext
    \/ GetBlock
    \/ GetNonce
    \/ SignFrontrun
    \/ SignBackrun
    \/ AssembleBundle
    \/ SimulateBundle
    \/ Gate
    \/ SendBundle

\* every await of the driver returns: a step the driver can take is taken
\* in the end.  Nothing is asked of the chain or of the feed.
FairSpec == Spec /\ WF_vars(DriverStep)

---------------------------------------------------------------------------
(* Properties *)

Range(s) == {s[i] : i \in DOMAIN s}
InHist(step) == step \in Range(hist)
Count(step) == Cardinality({i \in DOMAIN hist : hist[i] = step})
Before(a, b) ==
    \E i, j \in DOMAIN hist : i < j /\ hist[i] = a /\ hist[j] = b
IsPrefix(s, t) == Len(s) <= Len(t) /\ SubSeq(t, 1, Len(s)) = s

\* every step of one loop iteration, in the order of the source
FullPipeline ==
    <<"next", "get_transaction_receipt", "filter", "decode", "deadline",
      "get_univ2_exact_weth_token_min_recv", "pair",
      "get_uniswap_v2_reserves", "reorder", "optimal_in", "context",
      "get_block", "target", "base_fee", "get_transaction_count",
      "sign_frontrun", "sign_backrun", "construct_bundle",
      "simulate_bundle", "gate", "send_bundle">>

\* C1: send_bundle is called for a candidate only after that candidate has
\* passed every earlier stage, in order: no receipt, destination is the
\* router, payload decoded, deadline not expired, pair resolved, reserves
\* fetched, optimal input > 0, plan built, block / base fee / nonce read,
\* both legs signed, bundle constructed, bundle simulated, bribe gate passed.
\* A candidate rejected at an earlier stage never reaches send_bundle.
C1_SubmitOnlyAfterAllStages ==
    sendCalls # <<>> =>
        /\ hist = FullPipeline
        /\ c.rej \in {"none", "send_bundle"}
        /\ c.to = uni_v2_addr
        /\ c.path \in Paths
        /\ c.deadline >= c.now
        /\ c.optimal_weth_in > 0
        /\ c.revenue \in Revenues
        /\ c.target = c.head + 1
        /\ c.next_base_fee \in Fees
        /\ c.signed_frontrun_tx.signed
        /\ c.signed_backrun_tx.signed
        /\ c.bundle # NoBundle
        /\ simCalls = <<c.bundle>>
        /\ Len(c.sim) = 3
        /\ c.gate = "accepted"
        /\ c.max_priority_fee_per_gas >= c.next_base_fee

C1_Witness == sendCalls # <<>> /\ c.rej = "none" /\ pc = "next"

\* C2: at the gatekeeper, a priority fee below the next base fee rejects the
\* candidate and send_bundle is not called for it; a priority fee at or above
\* the next base fee (equality included) has send_bundle called for it.
C2_GateDecides ==
    c.gate # "none" =>
        /\ c.max_priority_fee_per_gas < c.next_base_fee =>
               c.rej = "gate" /\ pc = "next" /\ sendCalls = <<>>
        /\ c.max_priority_fee_per_gas >= c.next_base_fee =>
               c.rej # "gate" /\ (pc = "send" \/ sendCalls = <<c.bundle>>)

C2_Witness ==
    /\ c.gate # "none"
    /\ c.max_priority_fee_per_gas = c.next_base_fee
    /\ sendCalls = <<c.bundle>>

\* C3: for every decoded candidate and clock reading, a deadline strictly
\* below the current epoch second is rejected at the deadline stage, and a
\* deadline at or above it (equality included) passes the deadline stage.
C3_DeadlineGate ==
    InHist("deadline") =>
        /\ c.deadline < c.now =>
               c.rej = "deadline" /\ pc = "next"
               /\ hist[Len(hist)] = "deadline"
        /\ c.deadline >= c.now =>
               /\ c.rej # "deadline"
               /\ pc = "min_recv"
                  \/ InHist("get_univ2_exact_weth_token_min_recv")

C3_Witness ==
    InHist("deadline") /\ c.deadline = c.now /\ pc = "min_recv"

\* C4: when both legs are built, the back-run nonce is the front-run nonce
\* plus one, and both come from the one transaction-count query made for
\* the candidate, whatever the account did on the chain in the meantime.
C4_NonceSequencing ==
    c.signed_backrun_tx # NoTx =>
        /\ c.signed_backrun_tx.nonce = c.signed_frontrun_tx.nonce + 1
        /\ c.signed_frontrun_tx.nonce = c.chain_nonce_read
        /\ Count("get_transaction_count") = 1

C4_Witness ==
    c.signed_backrun_tx # NoTx /\ chainNonce > c.chain_nonce_read

\* C5: every bundle simulated or submitted is [signed front-run leg, raw
\* victim transaction, signed back-run leg] in that order, for the block
\* after the head block observed for the candidate.
C5_BundleShape ==
    \A b \in Range(simCalls) \cup Range(sendCalls) :
        /\ Len(b.transactions) = 3
        /\ b.transactions[1] = c.signed_frontrun_tx
        /\ b.transactions[1].kind = "frontrun"
        /\ b.transactions[1].signed
        /\ b.transactions[2] = VictimRlp(c.hash, c.to)
        /\ b.transactions[3] = c.signed_backrun_tx
        /\ b.transactions[3].kind = "backrun"
        /\ b.transactions[3].signed
        /\ b.block = c.chain_head_read + 1

C5_Witness ==
    simCalls # <<>> /\ sendCalls # <<>> /\ c.chain_head_read > 0

\* C6 as stated: candidates run one at a time and in feed order, h1 before
\* h2 whenever h1 came first on the feed.
C6_OneAtATimeInFeedOrder ==
    /\ Cardinality(active) <= 1
    /\ \A i, j \in DOMAIN started : i < j => started[i] < started[j]

\* C6 as amended: candidates run strictly one at a time; a pipeline starts
\* only when the one before it has ended, and no candidate runs twice.  The
\* order is the order in which the stream yields them.
C6_OneAtATime ==
    /\ Cardinality(active) <= 1
    /\ active # {} => active = {c.hash} /\ started[Len(started)] = c.hash
    /\ pc = "next" => active = {}
    /\ \A i, j \in DOMAIN started : i # j => started[i] # started[j]

C6_Witness ==
    Len(started) = 2 /\ started[1] > started[2] /\ active = {started[2]}

\* C7: once startup is over, only the failure to subscribe ends the process;
\* any failure while a candidate is processed abandons that candidate only.
C7_OnlySubscriptionIsFatal ==
    fatal \in {"none", "startup", "subscribe"}

\* C8: the stages of a candidate run in the order of the pipeline and the
\* first rejection is terminal: the rejecting stage is the last thing done
\* for the candidate; a candidate with a deadline in the past is rejected at
\* the deadline stage and its pool reserves are never queried.
C8_RejectionIsTerminal ==
    /\ IsPrefix(hist, FullPipeline)
    /\ c.rej # "none" => pc = "next" /\ hist[Len(hist)] = c.rej
    /\ c.deadline < c.now =>
           c.rej = "deadline" /\ ~InHist("get_uniswap_v2_reserves")

C8_Witness == c.rej = "deadline" /\ c.deadline < c.now /\ pc = "next"

\* C9: the nonce and the head block number used for a candidate's legs and
\* bundle are what the chain held when asked during that candidate, after
\* the plan and before the legs; nothing read at startup is used again.
C9_FreshReads ==
    c.signed_frontrun_tx # NoTx =>
        /\ c.head = c.chain_head_read
        /\ c.target = c.chain_head_read + 1
        /\ c.signed_frontrun_tx.nonce = c.chain_nonce_read
        /\ c.bundle # NoBundle => c.bundle.block = c.chain_head_read + 1
        /\ Count("get_block") = 1
        /\ Count("get_transaction_count") = 1
        /\ Before("context", "get_block")
        /\ Before("get_block", "get_transaction_count")
        /\ Before("get_transaction_count", "sign_frontrun")

C9_Witness ==
    c.signed_backrun_tx # NoTx /\ c.chain_head_read > last_block

\* C10: with the gas readings and the base fee held fixed, a bundle accepted
\* with revenue r1 is accepted with every revenue r2 >= r1.
C10_BribeGateMonotone ==
    c.gate = "accepted" =>
        \A r2 \in Revenues :
            r2 >= c.revenue =>
                Gatekeeper(r2, c.sim, c.next_base_fee).outcome = "accepted"

\* the reserves the math engine is given, lines 177-182
MathReserves == <<c.token_a_reserves, c.token_b_reserves>>

\* C11 as stated: the reordering step is idempotent; applied to the reserves
\* it produced, it returns them unchanged (twice is the same as once).
C11_ReorderIdempotent ==
    InHist("reorder") =>
        ReorderReserves(c.path[1], c.path[2], MathReserves) = MathReserves

\* C11 as amended: the step leaves the reserves unchanged when path[0] <
\* path[1], and a second application gives back the reserves as fetched:
\* the step undoes itself, so twice is the same as once only when path[0] <
\* path[1] or both reserves are equal.
C11_ReorderUndoesItself ==
    InHist("reorder") =>
        /\ ReorderReserves(c.path[1], c.path[2], MathReserves) = c.pool_reserves
        /\ c.path[1] < c.path[2] =>
               /\ MathReserves = c.pool_reserves
               /\ ReorderReserves(c.path[1], c.path[2], MathReserves)
                      = MathReserves
        /\ c.path[1] > c.path[2] =>
               MathReserves = <<c.pool_reserves[2], c.pool_reserves[1]>>

C11_Witness ==
    /\ InHist("reorder")
    /\ c.path[1] > c.path[2]
    /\ MathReserves # c.pool_reserves

\* the pool's reserve of a token of the pair: the pool reports (reserve of
\* the lower address, reserve of the higher address)
PoolReserveOf(token, path, reserves) ==
    IF \A other \in Range(path) : token <= other
    THEN reserves[1] ELSE reserves[2]

\* C12: after the reordering step, for both address orders of the path, the
\* math engine gets the pool's reserve of path[0] as reserveIn and the pool's
\* reserve of path[1] as reserveOut.
C12_ReservesFollowPath ==
    InHist("reorder") =>
        /\ c.token_a_reserves = PoolReserveOf(c.path[1], c.path, c.pool_reserves)
        /\ c.token_b_reserves = PoolReserveOf(c.path[2], c.path, c.pool_reserves)

C12_Witness ==
    /\ InHist("optimal_in")
    /\ c.path[1] > c.path[2]
    /\ c.token_a_reserves = c.pool_reserves[2]
    /\ c.token_a_reserves # c.token_b_reserves

\* the steps that follow the zero check of line 186
AfterOptimalIn ==
    {"context", "get_block", "target", "base_fee", "get_nonce",
     "sign_frontrun", "sign_backrun", "bundle", "simulate", "gate",
     "send_bundle"}

\* C13: every plan that reaches the transaction builder has an optimal input
\* above zero; an optimal input of zero is rejected before the plan is built
\* and before any block, nonce, signing or relay step.
C13_ZeroInputRejected ==
    /\ InHist("context") => c.optimal_weth_in > 0
    /\ c.signed_frontrun_tx # NoTx => c.optimal_weth_in > 0
    /\ (InHist("optimal_in") /\ c.optimal_weth_in = 0) =>
           /\ c.rej = "optimal_in"
           /\ pc = "next"
           /\ Range(hist) \cap AfterOptimalIn = {}
           /\ c.bundle = NoBundle
           /\ simCalls = <<>> /\ sendCalls = <<>>

C13_Witness ==
    /\ c.rej = "optimal_in"
    /\ c.optimal_weth_in = 0
    /\ hist[Len(hist)] = "optimal_in"

\* both legs of the candidate are built and signed
LegsBuilt == c.signed_frontrun_tx # NoTx /\ c.signed_backrun_tx # NoTx

\* C14: the call payload of both legs carries the plan (pair address,
\* intervention amount, expected output); no leg is built with an empty
\* payload or one that does not depend on the plan.
C14_PayloadEncodesPlan ==
    /\ c.signed_frontrun_tx # NoTx =>
           /\ c.signed_frontrun_tx.data # <<>>
           /\ c.optimal_weth_in \in Range(c.signed_frontrun_tx.data)
    /\ c.signed_backrun_tx # NoTx =>
           /\ c.signed_backrun_tx.data # <<>>
           /\ c.optimal_weth_in \in Range(c.signed_backrun_tx.data)

\* C15: both legs go to the sandwich contract with priority fee 0, max fee
\* equal to the candidate's next base fee and gas limit 250000; nonce aside,
\* the two requests are the same.
C15_LegEnvelope ==
    /\ \A leg \in {c.signed_frontrun_tx, c.signed_backrun_tx} :
           leg # NoTx =>
               /\ leg.to = sandwich_contract_address
               /\ leg.max_priority_fee_per_gas = 0
               /\ leg.max_fee_per_gas = c.next_base_fee
               /\ leg.gas = 250000
    /\ LegsBuilt =>
           /\ c.signed_backrun_tx.to = c.signed_frontrun_tx.to
           /\ c.signed_backrun_tx.from = c.signed_frontrun_tx.from
           /\ c.signed_backrun_tx.data = c.signed_frontrun_tx.data
           /\ c.signed_backrun_tx.chain_id = c.signed_frontrun_tx.chain_id
           /\ c.signed_backrun_tx.max_priority_fee_per_gas
                  = c.signed_frontrun_tx.max_priority_fee_per_gas
           /\ c.signed_backrun_tx.max_fee_per_gas
                  = c.signed_frontrun_tx.max_fee_per_gas
           /\ c.signed_backrun_tx.gas = c.signed_frontrun_tx.gas
           /\ c.signed_backrun_tx.nonce # c.signed_frontrun_tx.nonce

C15_Witness ==
    /\ LegsBuilt
    /\ c.next_base_fee = 2
    /\ c.signed_backrun_tx.max_fee_per_gas = 2
    /\ c.signed_backrun_tx.nonce = c.signed_frontrun_tx.nonce + 1

\* the gatekeeper computed a priority fee for the candidate
GateComputed == c.gate \in {"accepted", "rejected"}

C17_AtMostOneRelayCall ==
    /\ Len(simCalls) <= 1 /\ Count("simulate_bundle") <= 1
    /\ Len(sendCalls) <= 1 /\ Count("send_bundle") <= 1
    /\ c.rej = "send_bundle" =>
           /\ pc = "next"
           /\ Running
           /\ c.hash \notin active
           /\ Len(sendCalls) = 1
           /\ hist[Len(hist)] = "send_bundle"

C17_Witness ==
    /\ c.rej = "send_bundle"
    /\ Len(simCalls) = 1
    /\ Len(sendCalls) = 1

\* C18: the bundle given to send_bundle is the one given to simulate_bundle,
\* the same three transactions in the same order for the same target block,
\* and the bundle is not changed between the two calls.
C18_SentIsSimulated ==
    /\ simCalls # <<>> => c.bundle = simCalls[1]
    /\ \A i \in DOMAIN sendCalls :
           /\ simCalls # <<>>
           /\ sendCalls[i] = simCalls[1]
           /\ sendCalls[i].transactions = simCalls[1].transactions
           /\ sendCalls[i].block = simCalls[1].block

C18_Witness ==
    /\ sendCalls # <<>>
    /\ sendCalls[1] = simCalls[1]
    /\ Len(sendCalls[1].transactions) = 3
    /\ c.gate = "accepted"

\* C19: with every external call returning, each item taken from the feed
\* reaches a terminal outcome (skipped, rejected, sent), and each item the
\* stream holds is taken in its turn: the driver does not stop consuming.
C19_Progress ==
    \A h \in 1..MaxFeed :
        /\ (h \in active) ~> (h \notin active)
        /\ (h \in inflight) ~> (\E i \in DOMAIN started : started[i] = h)

\* C20: the gatekeeper's arithmetic never faults; on revenue below the
\* front-run gas cost, a back-run gas of zero, a product beyond the word or a
\* simulation of fewer than three legs, the candidate is rejected, nothing is
\* submitted and the driver goes on.
C20_GateNeverFaults ==
    InHist("gate") =>
        /\ Running
        /\ pc \in {"next", "send"}
        /\ Gatekeeper(c.revenue, c.sim, c.next_base_fee).outcome = "fault" =>
               /\ c.rej = "gate"
               /\ pc = "next"
               /\ sendCalls = <<>>

============================================================================
